---- MODULE Spec2Model ----
(***************************************************************************)
(* Model of plotter_tool/gcode_post.py: post_process merges a writing job  *)
(* and a drawing job into one G-code buffer, inserting ink macros (by      *)
(* marker line or by stroke count) and one paper-change macro in between.  *)
(*                                                                         *)
(* Heights (Z values) are integers in units of FLOAT_EPS (1e-4): the code  *)
(* only compares heights with >=, <= and abs(a - b) > FLOAT_EPS.           *)
(* A line of text is a record of what the code reads from it:              *)
(*   pad     the raw line carries surrounding whitespace (strip removes it)*)
(*   text    the stripped text ("" for a blank line)                       *)
(*   comment the stripped text starts with ";" or "("                      *)
(*   z       <<>> or <<v>>: what _extract_axis(line, "Z") returns          *)
(*   f       AXIS_PATTERN finds an F value in the line                     *)
(***************************************************************************)
EXTENDS Integers, Sequences, FiniteSets, TLC

\* gcode_post.py:28, FLOAT_EPS = 1e-4: the unit of every height of the model
FLOAT_EPS == 1

INK_MODE_SET == {"off", "marker", "stroke"}

Ln(pad, text, comment, z, f) ==
  [pad |-> pad, text |-> text, comment |-> comment, z |-> z, f |-> f]

\* str.strip() of a line
Strip(line) == [line EXCEPT !.pad = FALSE]

\* str.strip() of the marker token: a token of spaces only strips to ""
StripToken(tok) == IF tok = " " THEN "" ELSE tok

\* mutant of IsBlankOrComment: a comment line is read as a command
IsBlankOrCommentBlankOnly(stripped) == stripped.text = ""

\* `not stripped or stripped.startswith(COMMENT_PREFIXES)`
IsBlankOrComment(stripped) == stripped.text = "" \/ stripped.comment

\* _extract_axis(line, "Z"): <<>> is None
ExtractAxisZ(line) == line.z

HasFeedrate(line) == line.f

\* mutant of IsMarkerLine: substring match instead of whole-line match
IsMarkerLineSubstring(stripped, marker_token) ==
  LET token == StripToken(marker_token)
  IN  token # "" /\ stripped.text \in {token, ";#AUTO_INK# now", "G1 X1 ;#AUTO_INK#"}

IsMarkerLine(stripped, marker_token) ==
  LET token == StripToken(marker_token)
  IN  token # "" /\ stripped.text = token

(***************************************************************************)
(* Input lines used by the model                                           *)
(***************************************************************************)
LEmpty    == Ln(FALSE, "", FALSE, <<>>, FALSE)
LSpaces   == Ln(TRUE, "", FALSE, <<>>, FALSE)
LMarker   == Ln(FALSE, ";#AUTO_INK#", TRUE, <<>>, FALSE)
LMarkerPad == Ln(TRUE, ";#AUTO_INK#", TRUE, <<>>, FALSE)
LMarkerSub == Ln(FALSE, ";#AUTO_INK# now", TRUE, <<>>, FALSE)
LMarkerCmd == Ln(FALSE, "G1 X1 ;#AUTO_INK#", FALSE, <<>>, FALSE)
LNoteZ    == Ln(FALSE, "; Z5 note", TRUE, <<5>>, FALSE)
LMove     == Ln(FALSE, "G1 X1", FALSE, <<>>, FALSE)
LMoveF    == Ln(FALSE, "G1 X1 F300", FALSE, <<>>, TRUE)
LDown     == Ln(FALSE, "G1 Z5", FALSE, <<5>>, FALSE)
LDownF    == Ln(FALSE, "G1 Z5 F300", FALSE, <<5>>, TRUE)
LUp       == Ln(FALSE, "G0 Z0", FALSE, <<0>>, FALSE)
LMid      == Ln(FALSE, "G0 Z2", FALSE, <<2>>, FALSE)

\* _ensure_feedrate's injection, f"G1 F{default_feed}"
FeedLine  == Ln(FALSE, "G1 F1000", FALSE, <<>>, TRUE)

(***************************************************************************)
(* Macro templates: zt says what follows the Z of the template line:       *)
(* nothing, a literal number, a placeholder, or an unbalanced brace.       *)
(***************************************************************************)
Tpl(text, kind, v, key) == [text |-> text, kind |-> kind, v |-> v, key |-> key]

TMove    == Tpl("G0 X{ink_x} Y{ink_y}", "none", 0, "")
TUp      == Tpl("G0 Z{pen_up_z}", "key", 0, "pen_up_z")
TDown    == Tpl("G1 Z{pen_down_z}", "key", 0, "pen_down_z")
TMid     == Tpl("G0 Z2", "lit", 2, "")
TNear    == Tpl("G0 Z1", "lit", 1, "")
TUnknown == Tpl("G0 Z{lift}", "key", 0, "lift")
TBroken  == Tpl("G0 Z{", "bad", 0, "")

\* build_macro_context: the heights the templates can name
MacroContext(p) == [pen_up_z |-> p.pen_up_z, pen_down_z |-> p.pen_down_z]

\* str.format_map raises ValueError on an unbalanced brace
FormatRaises(template) == template.kind = "bad"

\* _format_macro_line: a known key renders as its value, an unknown key is
\* echoed as "{key}" (_SafeDict.__missing__), which AXIS_PATTERN does not match
FormatMacroLine(template, context) ==
  LET z == CASE template.kind = "lit" -> <<template.v>>
             [] template.kind = "key" /\ template.key \in DOMAIN context
                  -> <<context[template.key]>>
             [] OTHER -> <<>>
  IN  Ln(FALSE, template.text, FALSE, z, FALSE)

(***************************************************************************)
(* Output buffer entries.  kind is what appended the line; who/how/n are   *)
(* the job name, trigger and sequence number the annotation text carries.  *)
(***************************************************************************)
Entry(kind, who, how, n, line) ==
  [kind |-> kind, who |-> who, how |-> how, n |-> n, line |-> line]

Note(who, how, n) == [who |-> who, how |-> how, n |-> n]

Annotation(kind, note) == Entry(kind, note.who, note.how, note.n, LEmpty)

\* `z_value >= params.pen_down_z - FLOAT_EPS`
Engaged(z_value, p) == z_value >= p.pen_down_z - FLOAT_EPS

Abs(x) == IF x < 0 THEN -x ELSE x

\* the loop of _inject_macro over the template lines, from line i on
RECURSIVE RenderLines(_, _, _, _)
RenderLines(macro_lines, i, p, acc) ==
  IF i > Len(macro_lines) \/ ~acc.ok THEN acc
  ELSE IF FormatRaises(macro_lines[i]) THEN [acc EXCEPT !.ok = FALSE]
  ELSE LET line == FormatMacroLine(macro_lines[i], MacroContext(p))
           z_value == ExtractAxisZ(line)
           st == IF z_value # <<>>
                 THEN [current_z |-> z_value[1], pen_down |-> Engaged(z_value[1], p)]
                 ELSE acc.state
       IN  RenderLines(macro_lines, i + 1, p,
             [acc EXCEPT !.buffer = Append(@, Entry("macro", "", "", 0, line)),
                         !.state = st])

\* what one call of _inject_macro did: the macro and Machine State it was given,
\* the Machine State it left and the lines it appended (before: the buffer on entry)
CallRecord(macro_lines, entry, before, r) ==
  [called |-> TRUE, macro |-> macro_lines, entry |-> entry, exit |-> r.state,
   emitted |-> SubSeq(r.buffer, Len(before) + 1, Len(r.buffer))]

\* _inject_macro has not been called yet
NoCall ==
  [called |-> FALSE, macro |-> <<>>,
   entry |-> [current_z |-> 0, pen_down |-> FALSE],
   exit |-> [current_z |-> 0, pen_down |-> FALSE], emitted |-> <<>>]

\* mutant of InjectMacro: the engagement flag is left as the macro's lines set it
InjectMacroFlagKept(buffer, macro_lines, p, state, note) ==
  IF macro_lines = <<>> THEN [buffer |-> buffer, state |-> state, ok |-> TRUE]
  ELSE LET r == RenderLines(macro_lines, 1, p,
                  [buffer |-> Append(buffer, Annotation("macro_start", note)),
                   state |-> state, ok |-> TRUE])
           closed == Append(r.buffer, Annotation("macro_end", note))
           fix == Abs(r.state.current_z - p.pen_up_z) > FLOAT_EPS
       IN  IF ~r.ok THEN r
           ELSE [buffer |-> IF fix
                            THEN Append(closed, Entry("pen_up", "", "", 0,
                                   Ln(FALSE, "G0 Z{pen_up_z}", FALSE, <<p.pen_up_z>>, FALSE)))
                            ELSE closed,
                 state |-> [current_z |-> IF fix THEN p.pen_up_z ELSE r.state.current_z,
                            pen_down |-> r.state.pen_down],
                 ok |-> TRUE]

\* mutant of InjectMacro: no pen-up correction after the macro
InjectMacroUnfixed(buffer, macro_lines, p, state, note) ==
  IF macro_lines = <<>> THEN [buffer |-> buffer, state |-> state, ok |-> TRUE]
  ELSE LET r == RenderLines(macro_lines, 1, p,
                  [buffer |-> Append(buffer, Annotation("macro_start", note)),
                   state |-> state, ok |-> TRUE])
       IN  IF ~r.ok THEN r
           ELSE [buffer |-> Append(r.buffer, Annotation("macro_end", note)),
                 state |-> [r.state EXCEPT !.pen_down = FALSE],
                 ok |-> TRUE]

\* mutant of InjectMacro: the pen-up correction is appended before the end annotation
InjectMacroFixInside(buffer, macro_lines, p, state, note) ==
  IF macro_lines = <<>> THEN [buffer |-> buffer, state |-> state, ok |-> TRUE]
  ELSE LET r == RenderLines(macro_lines, 1, p,
                  [buffer |-> Append(buffer, Annotation("macro_start", note)),
                   state |-> state, ok |-> TRUE])
           fix == Abs(r.state.current_z - p.pen_up_z) > FLOAT_EPS
           fixed == IF fix
                    THEN Append(r.buffer, Entry("pen_up", "", "", 0,
                           Ln(FALSE, "G0 Z{pen_up_z}", FALSE, <<p.pen_up_z>>, FALSE)))
                    ELSE r.buffer
       IN  IF ~r.ok THEN r
           ELSE [buffer |-> Append(fixed, Annotation("macro_end", note)),
                 state |-> [current_z |-> IF fix THEN p.pen_up_z ELSE r.state.current_z,
                            pen_down |-> FALSE],
                 ok |-> TRUE]

\* _inject_macro: returns the buffer, the Machine State and whether it returned
\* (ok = FALSE: _format_macro_line raised)
InjectMacro(buffer, macro_lines, p, state, note) ==
  IF macro_lines = <<>> THEN [buffer |-> buffer, state |-> state, ok |-> TRUE]
  ELSE LET r == RenderLines(macro_lines, 1, p,
                  [buffer |-> Append(buffer, Annotation("macro_start", note)),
                   state |-> state, ok |-> TRUE])
           closed == Append(r.buffer, Annotation("macro_end", note))
           fix == Abs(r.state.current_z - p.pen_up_z) > FLOAT_EPS
       IN  IF ~r.ok THEN r
           ELSE [buffer |-> IF fix
                            THEN Append(closed, Entry("pen_up", "", "", 0,
                                   Ln(FALSE, "G0 Z{pen_up_z}", FALSE, <<p.pen_up_z>>, FALSE)))
                            ELSE closed,
                 state |-> [current_z |-> IF fix THEN p.pen_up_z ELSE r.state.current_z,
                            pen_down |-> FALSE],
                 ok |-> TRUE]

\* mutant of InputEntry: the stripped text is appended instead of raw_line
InputEntryStripped(raw_line) == Entry("input", "", "", 0, Strip(raw_line))

\* `buffer.append(raw_line)`
InputEntry(raw_line) == Entry("input", "", "", 0, raw_line)

\* mutant of StrokeTrigger: the ink mode is not looked at
StrokeTriggerAnyMode(job, stroke_counter) ==
  /\ job.stroke_interval > 0
  /\ stroke_counter > 0
  /\ stroke_counter % job.stroke_interval = 0

\* mutant of StrokeTrigger: the counter has to pass the threshold
StrokeTriggerLate(job, stroke_counter) ==
  /\ job.ink_mode = "stroke"
  /\ job.stroke_interval # 0
  /\ stroke_counter > job.stroke_interval

\* the stroke-mode trigger, `job.ink_mode == "stroke" and job.stroke_interval` and
\* `stroke_counter > 0 and stroke_counter % job.stroke_interval == 0`
StrokeTrigger(job, stroke_counter) ==
  /\ job.ink_mode = "stroke"
  /\ job.stroke_interval # 0
  /\ stroke_counter > 0
  /\ stroke_counter % job.stroke_interval = 0

\* mutant of ProcessLine: the ink macro is expanded before the lift line is emitted
ProcessLineInkFirst(job, p, raw_line, loc) ==
  LET stripped == Strip(raw_line)
      z_value  == ExtractAxisZ(stripped)
  IN
  IF job.ink_mode = "marker" /\ IsMarkerLine(stripped, p.marker_token)
  THEN LET n    == loc.ink_counter + 1
           note == Note(job.name, "manual", n)
           noted == Append(loc.buffer, Annotation("manual_note", note))
           r    == InjectMacro(noted, p.ink_macro, p, loc.state, note)
       IN  [state |-> r.state, buffer |-> r.buffer, ink_counter |-> n,
            stroke_counter |-> 0, previous_pen_down |-> r.state.pen_down,
            call |-> CallRecord(p.ink_macro, loc.state, noted, r),
            ok |-> r.ok]
  ELSE IF IsBlankOrComment(stripped)
  THEN [loc EXCEPT !.buffer = Append(@, InputEntry(raw_line))]
  ELSE IF z_value = <<>>
  THEN [loc EXCEPT !.buffer = Append(@, InputEntry(raw_line))]
  ELSE
    LET new_pen_down == Engaged(z_value[1], p)
        tracked == [current_z |-> z_value[1], pen_down |-> new_pen_down]
    IN
    IF loc.previous_pen_down /\ ~new_pen_down
    THEN LET counted == loc.stroke_counter + 1
             lifted  == Append(loc.buffer, InputEntry(raw_line))
             fire    == StrokeTrigger(job, counted)
             n       == loc.ink_counter + 1
             r       == IF fire
                        THEN InjectMacro(loc.buffer, p.ink_macro, p, loc.state,
                                         Note(job.name, "auto", n))
                        ELSE [buffer |-> loc.buffer, state |-> loc.state, ok |-> TRUE]
         IN  [state |-> tracked, buffer |-> Append(r.buffer, InputEntry(raw_line)),
              ink_counter |-> IF fire THEN n ELSE loc.ink_counter,
              stroke_counter |-> IF fire THEN 0 ELSE counted,
              previous_pen_down |-> new_pen_down,
              call |-> IF fire THEN CallRecord(p.ink_macro, loc.state, loc.buffer, r)
                       ELSE loc.call,
              ok |-> r.ok]
    ELSE [loc EXCEPT !.state = tracked,
                     !.previous_pen_down = new_pen_down,
                     !.buffer = Append(@, InputEntry(raw_line))]

\* mutant of ProcessLine: a marker line triggers in every mode but off
ProcessLineMarkerAnyMode(job, p, raw_line, loc) ==
  LET stripped == Strip(raw_line)
      z_value  == ExtractAxisZ(stripped)
  IN
  IF job.ink_mode # "off" /\ IsMarkerLine(stripped, p.marker_token)
  THEN LET n    == loc.ink_counter + 1
           note == Note(job.name, "manual", n)
           noted == Append(loc.buffer, Annotation("manual_note", note))
           r    == InjectMacro(noted, p.ink_macro, p, loc.state, note)
       IN  [state |-> r.state, buffer |-> r.buffer, ink_counter |-> n,
            stroke_counter |-> 0, previous_pen_down |-> r.state.pen_down,
            call |-> CallRecord(p.ink_macro, loc.state, noted, r),
            ok |-> r.ok]
  ELSE IF IsBlankOrComment(stripped)
  THEN [loc EXCEPT !.buffer = Append(@, InputEntry(raw_line))]
  ELSE IF z_value = <<>>
  THEN [loc EXCEPT !.buffer = Append(@, InputEntry(raw_line))]
  ELSE
    LET new_pen_down == Engaged(z_value[1], p)
        tracked == [current_z |-> z_value[1], pen_down |-> new_pen_down]
    IN
    IF loc.previous_pen_down /\ ~new_pen_down
    THEN LET counted == loc.stroke_counter + 1
             lifted  == Append(loc.buffer, InputEntry(raw_line))
             fire    == StrokeTrigger(job, counted)
             n       == loc.ink_counter + 1
             r       == IF fire
                        THEN InjectMacro(lifted, p.ink_macro, p, loc.state,
                                         Note(job.name, "auto", n))
                        ELSE [buffer |-> lifted, state |-> loc.state, ok |-> TRUE]
         IN  [state |-> tracked, buffer |-> r.buffer,
              ink_counter |-> IF fire THEN n ELSE loc.ink_counter,
              stroke_counter |-> IF fire THEN 0 ELSE counted,
              previous_pen_down |-> new_pen_down,
              call |-> IF fire THEN CallRecord(p.ink_macro, loc.state, lifted, r)
                       ELSE loc.call,
              ok |-> r.ok]
    ELSE [loc EXCEPT !.state = tracked,
                     !.previous_pen_down = new_pen_down,
                     !.buffer = Append(@, InputEntry(raw_line))]

\* One iteration of the loop of _process_job over raw_line.  loc holds the
\* Machine State, the buffer and the locals of _process_job; call is the last
\* call of _inject_macro; ok = FALSE when the macro renderer raised.
ProcessLine(job, p, raw_line, loc) ==
  LET stripped == Strip(raw_line)
      z_value  == ExtractAxisZ(stripped)
  IN
  IF job.ink_mode = "marker" /\ IsMarkerLine(stripped, p.marker_token)
  THEN LET n    == loc.ink_counter + 1
           note == Note(job.name, "manual", n)
           noted == Append(loc.buffer, Annotation("manual_note", note))
           r    == InjectMacro(noted, p.ink_macro, p, loc.state, note)
       IN  [state |-> r.state, buffer |-> r.buffer, ink_counter |-> n,
            stroke_counter |-> 0, previous_pen_down |-> r.state.pen_down,
            call |-> CallRecord(p.ink_macro, loc.state, noted, r),
            ok |-> r.ok]
  ELSE IF IsBlankOrComment(stripped)
  THEN [loc EXCEPT !.buffer = Append(@, InputEntry(raw_line))]
  ELSE IF z_value = <<>>
  THEN [loc EXCEPT !.buffer = Append(@, InputEntry(raw_line))]
  ELSE
    LET new_pen_down == Engaged(z_value[1], p)
        tracked == [current_z |-> z_value[1], pen_down |-> new_pen_down]
    IN
    IF loc.previous_pen_down /\ ~new_pen_down
    THEN LET counted == loc.stroke_counter + 1
             lifted  == Append(loc.buffer, InputEntry(raw_line))
             fire    == StrokeTrigger(job, counted)
             n       == loc.ink_counter + 1
             r       == IF fire
                        THEN InjectMacro(lifted, p.ink_macro, p, loc.state,
                                         Note(job.name, "auto", n))
                        ELSE [buffer |-> lifted, state |-> loc.state, ok |-> TRUE]
         IN  [state |-> tracked, buffer |-> r.buffer,
              ink_counter |-> IF fire THEN n ELSE loc.ink_counter,
              stroke_counter |-> IF fire THEN 0 ELSE counted,
              previous_pen_down |-> new_pen_down,
              call |-> IF fire THEN CallRecord(p.ink_macro, loc.state, lifted, r)
                       ELSE loc.call,
              ok |-> r.ok]
    ELSE [loc EXCEPT !.state = tracked,
                     !.previous_pen_down = new_pen_down,
                     !.buffer = Append(@, InputEntry(raw_line))]

\* mutant of CandidateIndexes: only the first candidate is looked at
CandidateIndexesFirstOnly(lines) ==
  LET C == {i \in 1..Len(lines) : ~IsBlankOrComment(Strip(lines[i]))}
  IN  {i \in C : \A j \in C : i <= j}

\* _ensure_feedrate: the first two lines that are neither blank nor comment
CandidateIndexes(lines) ==
  LET C == {i \in 1..Len(lines) : ~IsBlankOrComment(Strip(lines[i]))}
  IN  {i \in C : Cardinality({j \in C : j < i}) < 2}

EnsureFeedrate(lines) ==
  LET candidate_indexes == CandidateIndexes(lines)
      has_feed == \E i \in candidate_indexes : HasFeedrate(lines[i])
  IN  IF has_feed \/ candidate_indexes = {} THEN lines
      ELSE LET insert_pos == CHOOSE i \in candidate_indexes :
                               \A j \in candidate_indexes : i <= j
           IN  SubSeq(lines, 1, insert_pos) \o <<FeedLine>>
                 \o SubSeq(lines, insert_pos + 1, Len(lines))

\* mutant of ValidateJob: the marker token is not checked
ValidateJobTokenUnchecked(job, file, marker) ==
  CASE ~file.exists -> "FileNotFoundError"
    [] job.ink_mode \notin INK_MODE_SET -> "ValueError"
    [] job.ink_mode = "stroke" /\ job.stroke_interval <= 0 -> "ValueError"
    [] OTHER -> ""

\* _validate_job: "" when the job passes, else the exception raised
ValidateJob(job, file, marker) ==
  CASE ~file.exists -> "FileNotFoundError"
    [] job.ink_mode \notin INK_MODE_SET -> "ValueError"
    [] job.ink_mode = "stroke" /\ job.stroke_interval <= 0 -> "ValueError"
    [] job.ink_mode = "marker" /\ marker = "" -> "ValueError"
    [] OTHER -> ""

\* mutant of HeightsRejected: equal heights pass
HeightsRejectedStrict(p) == p.pen_down_z < p.pen_up_z

\* _validate_params, `params.pen_down_z <= params.pen_up_z`
HeightsRejected(p) == p.pen_down_z <= p.pen_up_z

\* _validate_params up to the mkdir: "" or the exception raised
ValidateParams(p, files) ==
  LET marker == StripToken(p.marker_token)
      w == ValidateJob(p.writing, files.writing, marker)
      d == ValidateJob(p.drawing, files.drawing, marker)
  IN  IF HeightsRejected(p) THEN "ValueError"
      ELSE IF w # "" THEN w
      ELSE d

\* mutant of PhaseAfter: the paper change runs after the drawing job
PhaseAfterSwapped(phase) ==
  CASE phase = "validate"     -> "run_writing"
    [] phase = "run_writing"  -> "run_drawing"
    [] phase = "run_drawing"  -> "insert_paper"
    [] phase = "insert_paper" -> "finalize"
    [] OTHER                  -> "done"

\* post_process: the order of its calls
PhaseAfter(phase) ==
  CASE phase = "validate"     -> "run_writing"
    [] phase = "run_writing"  -> "insert_paper"
    [] phase = "insert_paper" -> "run_drawing"
    [] phase = "run_drawing"  -> "finalize"
    [] OTHER                  -> "done"

\* mutant of OutputOnError: the buffer built so far is flushed when the run aborts
OutputOnErrorFlushed(out, buf) == [exists |-> TRUE, content |-> buf]

\* post_process has no handler around its calls: an exception leaves the
\* output path as it was
OutputOnError(out, buf) == out

\* `params.output_path.write_text("\n".join(buffer) + "\n")`
WriteText(buf) == [exists |-> TRUE, content |-> buf]

(***************************************************************************)
(* The runs the model explores: configurations and input files             *)
(***************************************************************************)
\* longest input of the stroke-counting runs
MaxStrokeLines == 6
\* longest input of the runs over the full line alphabet
MaxLines == 3
\* longest macro of the runs over the template alphabet
MaxMacroLines == 2
\* longest writing input of the calls that run concurrently
MaxConcurrentLines == 2

SeqsUpTo(S, n) == UNION {[1..k -> S] : k \in 0..n}

\* stroke_interval None is modelled as 0: the code reads it only through
\* `(job.stroke_interval or 0) <= 0` and `if ... and job.stroke_interval`
JobParams(name, ink_mode, stroke_interval) ==
  [name |-> name, ink_mode |-> ink_mode, stroke_interval |-> stroke_interval]

PostParams(w, d, up, down, ink, paper, token) ==
  [writing |-> JobParams("writing", w[1], w[2]),
   drawing |-> JobParams("drawing", d[1], d[2]),
   pen_up_z |-> up, pen_down_z |-> down,
   ink_macro |-> ink, paper_macro |-> paper, marker_token |-> token]

File(lines) == [exists |-> TRUE, lines |-> lines]
NoFile == [exists |-> FALSE, lines |-> <<>>]

Files(w, d, dir_ok) == [writing |-> w, drawing |-> d, dir_ok |-> dir_ok]

NoOutput  == [exists |-> FALSE, content |-> <<>>]
OldOutput == [exists |-> TRUE, content |-> <<InputEntry(LMove)>>]

Token == ";#AUTO_INK#"
Off     == <<"off", 0>>
Marker  == <<"marker", 0>>
Stroke1 == <<"stroke", 1>>
Stroke2 == <<"stroke", 2>>
Policies == {Off, Marker, Stroke1, Stroke2}

DefaultPaper == <<TUp, TMove>>
DefaultInk   == <<TUp, TMove, TDown, TUp>>

StrokeAlphabet == {LDown, LUp, LMove}
LineAlphabet == {LEmpty, LMarker, LMarkerSub, LNoteZ, LMove, LMoveF, LDown, LMid}
TemplateAlphabet == {TMove, TUp, TDown, TMid, TNear, TUnknown, TBroken}

(***************************************************************************)
(* The state of one call of post_process                                   *)
(***************************************************************************)
VARIABLES
  params,             \* PostParams, frozen
  files,              \* the two input files and whether mkdir can succeed
  output,             \* the file at params.output_path
  dir_created,        \* output_path.parent.mkdir has been called
  pc,                 \* where post_process is
  failed_in,          \* the phase an exception left from ("" if none)
  error,              \* the exception raised ("" if none)
  reads,              \* names of the jobs whose input has been read
  state,              \* _State: current_z, pen_down
  buffer,             \* the merged output lines
  lines,              \* _process_job: the lines being iterated
  idx,                \* _process_job: index of the next line, 0 outside the loop
  ink_counter,        \* _process_job locals
  stroke_counter,
  previous_pen_down,
  result,             \* PostResult under construction
  injected,           \* the last call of _inject_macro that returned (history)
  peer                \* the call of post_process running concurrently, if any

vars == <<params, files, output, dir_created, pc, failed_in, error, reads, state,
          buffer, lines, idx, ink_counter, stroke_counter, previous_pen_down, result,
          injected, peer>>

env     == <<params, files, peer>>
locals  == <<lines, idx, ink_counter, stroke_counter, previous_pen_down>>

\* the state of a call of post_process on entry
InitialRun(p, f, out) ==
  [present |-> TRUE, params |-> p, files |-> f, output |-> out,
   dir_created |-> FALSE, pc |-> "validate", failed_in |-> "", error |-> "",
   reads |-> {}, state |-> [current_z |-> p.pen_up_z, pen_down |-> FALSE],
   buffer |-> <<>>, lines |-> <<>>, idx |-> 0, ink_counter |-> 0,
   stroke_counter |-> 0, previous_pen_down |-> FALSE,
   result |-> [writing_ink_times |-> 0, drawing_ink_times |-> 0,
               paper_times |-> 0, total_lines |-> 0],
   injected |-> NoCall]

\* no other call of post_process is running
NoPeer == [present |-> FALSE]

\* mutant of RunBuffer: the buffer is one list shared by all calls
RunBufferShared(own, other) == other

\* `buffer: List[str] = []` is a local of post_process: a call that resumes
\* finds its own list (own), not the one the other call appended to (other)
RunBuffer(own, other) == own

\* the variables hold the state of the run r
Resume(r) ==
  /\ params = r.params
  /\ files = r.files
  /\ output = r.output
  /\ dir_created = r.dir_created
  /\ pc = r.pc
  /\ failed_in = r.failed_in
  /\ error = r.error
  /\ reads = r.reads
  /\ state = r.state
  /\ buffer = r.buffer
  /\ lines = r.lines
  /\ idx = r.idx
  /\ ink_counter = r.ink_counter
  /\ stroke_counter = r.stroke_counter
  /\ previous_pen_down = r.previous_pen_down
  /\ result = r.result
  /\ injected = r.injected

InitRun(p, f, out) ==
  /\ Resume(InitialRun(p, f, out))
  /\ peer = NoPeer

\* stroke counting over long inputs
StrokeRuns ==
  \E w \in {Stroke1, Stroke2}, wl \in SeqsUpTo(StrokeAlphabet, MaxStrokeLines) :
    InitRun(PostParams(w, Stroke1, 0, 5, DefaultInk, DefaultPaper, Token),
            Files(File(wl), File(<<LDown, LUp>>), TRUE), NoOutput)

\* every ink policy over the line alphabet, in the writing job
WritingRuns ==
  \E w \in Policies, ink \in {<<>>, <<TMove>>}, wl \in SeqsUpTo(LineAlphabet, MaxLines) :
    InitRun(PostParams(w, Stroke1, 0, 5, ink, DefaultPaper, Token),
            Files(File(wl), File(<<LDown, LUp>>), TRUE), NoOutput)

\* every ink policy over the line alphabet, in the drawing job, after a writing
\* job that ends with the pen down, with and without a paper macro
DrawingRuns ==
  \E d \in Policies, paper \in {<<>>, <<TMove>>}, dl \in SeqsUpTo(LineAlphabet, MaxLines) :
    InitRun(PostParams(Off, d, 0, 5, <<TMove>>, paper, Token),
            Files(File(<<LMove, LDown>>), File(dl), TRUE), NoOutput)

\* every macro over the template alphabet, as ink macro and as paper macro
MacroRuns ==
  \/ \E w \in {Marker, Stroke1}, d \in {Marker, Stroke1},
        ink \in SeqsUpTo(TemplateAlphabet, MaxMacroLines) :
       InitRun(PostParams(w, d, 0, 5, ink, <<TMove>>, Token),
               Files(File(<<LDown, LMarkerPad, LMid, LMarkerCmd>>),
                     File(<<LMarker, LDown, LMid>>), TRUE), NoOutput)
  \/ \E d \in {Marker, Stroke1}, wl \in {<<LDown, LMid>>, <<LDown>>, <<LMove>>},
        paper \in SeqsUpTo(TemplateAlphabet, MaxMacroLines) :
       InitRun(PostParams(Stroke1, d, 0, 5, <<TMove>>, paper, Token),
               Files(File(wl), File(<<LMarker, LDown, LMid>>), TRUE), NoOutput)

\* configurations and files that validate or the first read may refuse
ConfigRuns ==
  \/ \E w \in {"off", "marker", "stroke", "dots"} \X {-1, 0, 1},
        d \in {<<"stroke", 1>>, <<"stroke", 0>>, <<"marker", 1>>, <<"dots", 1>>},
        h \in {<<0, 5>>, <<5, 5>>, <<5, 0>>},
        token \in {"", " ", Token} :
       InitRun(PostParams(w, d, h[1], h[2], <<TMove>>, DefaultPaper, token),
               Files(File(<<LDownF, LUp>>), File(<<LDown, LUp>>), TRUE), NoOutput)
  \/ \E h \in {<<0, 5>>, <<5, 5>>, <<5, 0>>},
        wf \in {NoFile, File(<<>>), File(<<LSpaces>>), File(<<LDown, LUp>>)},
        df \in {NoFile, File(<<>>), File(<<LEmpty>>), File(<<LDown, LUp>>)},
        paper \in {<<>>, <<TBroken>>, <<TMove>>},
        dir_ok \in BOOLEAN, out \in {NoOutput, OldOutput} :
       InitRun(PostParams(Stroke1, Stroke1, h[1], h[2], <<TMove>>, paper, Token),
               Files(wf, df, dir_ok), out)

\* pen-down heights one and two tolerances above the pen-up height
NarrowRuns ==
  \E down \in {FLOAT_EPS, 2 * FLOAT_EPS}, ink \in {<<TNear>>, <<TMove>>} :
    InitRun(PostParams(Marker, Stroke1, 0, down, ink, <<TNear>>, Token),
            Files(File(<<LMarker, LMid>>), File(<<LDown, LUp>>), TRUE), NoOutput)

Init ==
  \/ StrokeRuns
  \/ WritingRuns
  \/ DrawingRuns
  \/ MacroRuns
  \/ ConfigRuns
  \/ NarrowRuns

InJob == pc \in {"run_writing", "run_drawing"}
CurrentJob == IF pc = "run_writing" THEN params.writing ELSE params.drawing
CurrentFile == IF pc = "run_writing" THEN files.writing ELSE files.drawing

\* an exception leaves post_process
Raise(e) ==
  /\ pc' = "failed"
  /\ failed_in' = pc
  /\ error' = e
  /\ output' = OutputOnError(output, buffer)

\* _validate_params raises
ValidateFail ==
  /\ pc = "validate"
  /\ ValidateParams(params, files) # ""
  /\ Raise(ValidateParams(params, files))
  /\ UNCHANGED <<env, injected, dir_created, reads, state, buffer, locals, result>>

\* _validate_params passes its checks and mkdir raises
ValidateMkdirFail ==
  /\ pc = "validate"
  /\ ValidateParams(params, files) = ""
  /\ ~files.dir_ok
  /\ Raise("OSError")
  /\ UNCHANGED <<env, injected, dir_created, reads, state, buffer, locals, result>>

\* _validate_params returns; buffer and state are created
Validate ==
  /\ pc = "validate"
  /\ ValidateParams(params, files) = ""
  /\ files.dir_ok
  /\ dir_created' = TRUE
  /\ buffer' = <<>>
  /\ state' = [current_z |-> params.pen_up_z, pen_down |-> FALSE]
  /\ pc' = PhaseAfter(pc)
  /\ UNCHANGED <<env, injected, output, failed_in, error, reads, locals, result>>

\* _read_gcode_lines: "" or the exception raised
ReadError(file) ==
  CASE ~file.exists -> "FileNotFoundError"
    [] file.lines = <<>> -> "GcodePostError"
    [] OTHER -> ""

\* _process_job up to the loop: the read fails
ReadJobFail ==
  /\ InJob /\ idx = 0
  /\ ReadError(CurrentFile) # ""
  /\ Raise(ReadError(CurrentFile))
  /\ reads' = IF CurrentFile.exists THEN reads \cup {CurrentJob.name} ELSE reads
  /\ UNCHANGED <<env, injected, dir_created, state, buffer, locals, result>>

\* _process_job up to the loop
ReadJob ==
  /\ InJob /\ idx = 0
  /\ ReadError(CurrentFile) = ""
  /\ reads' = reads \cup {CurrentJob.name}
  /\ lines' = EnsureFeedrate(CurrentFile.lines)
  /\ idx' = 1
  /\ ink_counter' = 0
  /\ stroke_counter' = 0
  /\ previous_pen_down' = state.pen_down
  /\ buffer' = Append(buffer, Annotation("job_start", Note(CurrentJob.name, "", 0)))
  /\ UNCHANGED <<env, injected, output, dir_created, pc, failed_in, error, state, result>>

Locals == [state |-> state, buffer |-> buffer, ink_counter |-> ink_counter,
           stroke_counter |-> stroke_counter,
           previous_pen_down |-> previous_pen_down, call |-> injected,
           ok |-> TRUE]

\* which branch of the loop body a line takes
LineClass(job, p, prev_down, raw_line) ==
  LET stripped == Strip(raw_line)
      z_value == ExtractAxisZ(stripped)
  IN  CASE job.ink_mode = "marker" /\ IsMarkerLine(stripped, p.marker_token) -> "marker"
        [] IsBlankOrComment(stripped) -> "skip"
        [] z_value = <<>> -> "plain"
        [] prev_down /\ ~Engaged(z_value[1], p) -> "lift"
        [] OTHER -> "z"

\* one iteration of the loop of _process_job
Iterate ==
  /\ InJob /\ idx \in 1..Len(lines)
  /\ LET r == ProcessLine(CurrentJob, params, lines[idx], Locals)
     IN  IF r.ok
         THEN /\ state' = r.state
              /\ buffer' = r.buffer
              /\ ink_counter' = r.ink_counter
              /\ stroke_counter' = r.stroke_counter
              /\ previous_pen_down' = r.previous_pen_down
              /\ injected' = r.call
              /\ idx' = idx + 1
              /\ UNCHANGED <<env, output, dir_created, pc, failed_in, error, reads,
                             lines, result>>
         ELSE /\ Raise("ValueError")
              /\ UNCHANGED <<env, injected, dir_created, reads, state, buffer, locals, result>>

\* the class of the line the loop is about to process ("" outside the loop)
NextClass ==
  IF InJob /\ idx \in 1..Len(lines)
  THEN LineClass(CurrentJob, params, previous_pen_down, lines[idx])
  ELSE ""

\* the iteration, by the branch the line takes
MarkerLine ==
  /\ NextClass = "marker"
  /\ Iterate

PassThrough ==
  /\ NextClass = "skip"
  /\ Iterate

PlainLine ==
  /\ NextClass = "plain"
  /\ Iterate

PenLiftLine ==
  /\ NextClass = "lift"
  /\ Iterate

ZLine ==
  /\ NextClass = "z"
  /\ Iterate

\* _process_job after the loop, and the assignment of its return value
EndJob ==
  /\ InJob /\ idx = Len(lines) + 1
  /\ buffer' = buffer \o <<Annotation("job_end", Note(CurrentJob.name, "", 0)),
                           Entry("tail", "", "", 0, LEmpty)>>
  /\ result' = IF pc = "run_writing"
               THEN [result EXCEPT !.writing_ink_times = ink_counter]
               ELSE [result EXCEPT !.drawing_ink_times = ink_counter]
  /\ idx' = 0
  /\ pc' = PhaseAfter(pc)
  /\ UNCHANGED <<env, injected, output, dir_created, failed_in, error, reads, state, lines,
                 ink_counter, stroke_counter, previous_pen_down>>

PaperNote == Note("paper", "paper", 1)

\* mutant of PaperChange: an empty paper macro is counted as one insertion
PaperChangeAlwaysCounted(buf, p, st) ==
  IF p.paper_macro = <<>>
  THEN [buffer |-> buf, state |-> st, times |-> 1, call |-> NoCall, ok |-> TRUE]
  ELSE LET headed == Append(buf, Annotation("paper_header", PaperNote))
           r == InjectMacro(headed, p.paper_macro, p, st, PaperNote)
       IN  [buffer |-> Append(r.buffer, Entry("tail", "", "", 0, LEmpty)),
            state |-> r.state, times |-> 1,
            call |-> CallRecord(p.paper_macro, st, headed, r), ok |-> r.ok]

\* mutant of PaperChange: the header and the blank line are emitted before the
\* macro is looked at
PaperChangeHeaderFirst(buf, p, st) ==
  LET headed == Append(buf, Annotation("paper_header", PaperNote))
      r == InjectMacro(headed, p.paper_macro, p, st, PaperNote)
  IN  [buffer |-> Append(r.buffer, Entry("tail", "", "", 0, LEmpty)),
       state |-> r.state,
       times |-> IF p.paper_macro = <<>> THEN 0 ELSE 1,
       call |-> CallRecord(p.paper_macro, st, headed, r), ok |-> r.ok]

\* _insert_paper_change: buffer, state, count, its call of _inject_macro, ok
PaperChange(buf, p, st) ==
  IF p.paper_macro = <<>>
  THEN [buffer |-> buf, state |-> st, times |-> 0, call |-> NoCall, ok |-> TRUE]
  ELSE LET headed == Append(buf, Annotation("paper_header", PaperNote))
           r == InjectMacro(headed, p.paper_macro, p, st, PaperNote)
       IN  [buffer |-> Append(r.buffer, Entry("tail", "", "", 0, LEmpty)),
            state |-> r.state, times |-> 1,
            call |-> CallRecord(p.paper_macro, st, headed, r), ok |-> r.ok]

\* the loop of _process_job from line i on
RECURSIVE RunLines(_, _, _, _, _)
RunLines(job, p, ls, i, loc) ==
  IF i > Len(ls) \/ ~loc.ok THEN loc
  ELSE RunLines(job, p, ls, i + 1, ProcessLine(job, p, ls[i], loc))

\* _process_job as one call, on a file that reads without error
ProcessJob(job, p, file_lines, st, buf) ==
  LET r == RunLines(job, p, EnsureFeedrate(file_lines), 1,
             [state |-> st,
              buffer |-> Append(buf, Annotation("job_start", Note(job.name, "", 0))),
              ink_counter |-> 0, stroke_counter |-> 0,
              previous_pen_down |-> st.pen_down, call |-> NoCall, ok |-> TRUE])
  IN  [r EXCEPT !.buffer = @ \o <<Annotation("job_end", Note(job.name, "", 0)),
                                  Entry("tail", "", "", 0, LEmpty)>>]

\* post_process as one call up to the write: the three calls in order, the
\* buffer positions where the drawing job's lines start, and its ink count
PostProcess(p, writing_lines, drawing_lines) ==
  LET w == ProcessJob(p.writing, p, writing_lines,
                      [current_z |-> p.pen_up_z, pen_down |-> FALSE], <<>>)
      c == PaperChange(w.buffer, p, w.state)
      d == ProcessJob(p.drawing, p, drawing_lines, c.state, c.buffer)
  IN  [ok |-> w.ok /\ c.ok /\ d.ok,
       drawing_block |-> SubSeq(d.buffer, Len(c.buffer) + 1, Len(d.buffer)),
       drawing_ink_times |-> d.ink_counter]

\* post_process as one call, alone: how it ends ("done" or "failed", and then
\* where and with what exception), the output file and the PostResult
PostProcessAlone(p, f, out) ==
  LET v == ValidateParams(p, f)
      w == ProcessJob(p.writing, p, f.writing.lines,
                      [current_z |-> p.pen_up_z, pen_down |-> FALSE], <<>>)
      c == PaperChange(w.buffer, p, w.state)
      d == ProcessJob(p.drawing, p, f.drawing.lines, c.state, c.buffer)
      Failed(phase, e) ==
        [pc |-> "failed", failed_in |-> phase, error |-> e, output |-> out,
         writing_ink_times |-> 0, drawing_ink_times |-> 0, paper_times |-> 0,
         total_lines |-> 0]
  IN  CASE v # "" -> Failed("validate", v)
        [] ~f.dir_ok -> Failed("validate", "OSError")
        [] ReadError(f.writing) # "" -> Failed("run_writing", ReadError(f.writing))
        [] ~w.ok -> Failed("run_writing", "ValueError")
        [] ~c.ok -> Failed("insert_paper", "ValueError")
        [] ReadError(f.drawing) # "" -> Failed("run_drawing", ReadError(f.drawing))
        [] ~d.ok -> Failed("run_drawing", "ValueError")
        [] OTHER ->
             [pc |-> "done", failed_in |-> "", error |-> "",
              output |-> WriteText(d.buffer),
              writing_ink_times |-> w.ink_counter,
              drawing_ink_times |-> d.ink_counter,
              paper_times |-> c.times,
              total_lines |-> Len(d.buffer)]

InsertPaperChange ==
  /\ pc = "insert_paper"
  /\ LET r == PaperChange(buffer, params, state)
     IN  IF r.ok
         THEN /\ buffer' = r.buffer
              /\ state' = r.state
              /\ result' = [result EXCEPT !.paper_times = r.times]
              /\ injected' = IF r.call.called THEN r.call ELSE injected
              /\ pc' = PhaseAfter(pc)
              /\ UNCHANGED <<env, output, dir_created, failed_in, error, reads, locals>>
         ELSE /\ Raise("ValueError")
              /\ UNCHANGED <<env, injected, dir_created, reads, state, buffer, locals, result>>

\* post_process: write_text and the PostResult
Finalize ==
  /\ pc = "finalize"
  /\ output' = WriteText(buffer)
  /\ result' = [result EXCEPT !.total_lines = Len(buffer)]
  /\ pc' = PhaseAfter(pc)
  /\ UNCHANGED <<env, injected, dir_created, failed_in, error, reads, state, buffer, locals>>

Next ==
  \/ ValidateFail
  \/ ValidateMkdirFail
  \/ Validate
  \/ ReadJobFail
  \/ ReadJob
  \/ MarkerLine
  \/ PassThrough
  \/ PlainLine
  \/ PenLiftLine
  \/ ZLine
  \/ EndJob
  \/ InsertPaperChange
  \/ Finalize

Spec == Init /\ [][Next]_vars

(***************************************************************************)
(* Two calls of post_process over disjoint inputs and outputs, in two      *)
(* threads or processes.  The variables hold the call that is running;     *)
(* peer holds the other one, suspended.  Each call has its own params,     *)
(* files, output path, buffer, Machine State and locals (lines 86-92): the *)
(* module's globals are never assigned after import.                       *)
(***************************************************************************)
\* the state of the running call
Suspended ==
  [present |-> TRUE, params |-> params, files |-> files, output |-> output,
   dir_created |-> dir_created, pc |-> pc, failed_in |-> failed_in,
   error |-> error, reads |-> reads, state |-> state, buffer |-> buffer,
   lines |-> lines, idx |-> idx, ink_counter |-> ink_counter,
   stroke_counter |-> stroke_counter, previous_pen_down |-> previous_pen_down,
   result |-> result, injected |-> injected]

\* the scheduler suspends the running call and resumes the other one
Switch ==
  /\ peer.present
  /\ params' = peer.params
  /\ files' = peer.files
  /\ output' = peer.output
  /\ dir_created' = peer.dir_created
  /\ pc' = peer.pc
  /\ failed_in' = peer.failed_in
  /\ error' = peer.error
  /\ reads' = peer.reads
  /\ state' = peer.state
  /\ buffer' = RunBuffer(peer.buffer, buffer)
  /\ lines' = peer.lines
  /\ idx' = peer.idx
  /\ ink_counter' = peer.ink_counter
  /\ stroke_counter' = peer.stroke_counter
  /\ previous_pen_down' = peer.previous_pen_down
  /\ result' = peer.result
  /\ injected' = peer.injected
  /\ peer' = Suspended

\* the calls that run concurrently: ink by marker and by stroke count over short
\* inputs, with and without paper macro, and calls that fail in each phase
ConcurrentRuns ==
  {InitialRun(PostParams(w, Stroke1, 0, 5, <<TMove>>, paper, Token),
              Files(File(wl), File(<<LDown, LUp>>), TRUE), NoOutput) :
     w \in {Marker, Stroke1}, paper \in {<<>>, DefaultPaper},
     wl \in SeqsUpTo({LDown, LMarker}, MaxConcurrentLines) \ {<<>>}}
  \cup
  {InitialRun(PostParams(Marker, Off, 0, 5, <<TMove>>, <<TMid>>, Token),
              Files(File(<<LEmpty, LMove, LMarker>>), File(<<LMove>>), TRUE), OldOutput),
   InitialRun(PostParams(Off, Off, 5, 5, <<TMove>>, DefaultPaper, Token),
              Files(File(<<LMove>>), File(<<LMove>>), TRUE), NoOutput),
   InitialRun(PostParams(Off, Off, 0, 5, <<TMove>>, DefaultPaper, Token),
              Files(File(<<LMove>>), File(<<LMove>>), FALSE), NoOutput),
   InitialRun(PostParams(Off, Off, 0, 5, <<TMove>>, DefaultPaper, Token),
              Files(File(<<LDown>>), File(<<>>), TRUE), OldOutput),
   InitialRun(PostParams(Off, Off, 0, 5, <<TMove>>, <<TBroken>>, Token),
              Files(File(<<LDown>>), File(<<LMove>>), TRUE), NoOutput)}

ConcurrentInit ==
  \E a \in ConcurrentRuns, b \in ConcurrentRuns :
    /\ Resume(a)
    /\ peer = b

ConcurrentNext ==
  \/ Next
  \/ Switch

ConcurrentSpec == ConcurrentInit /\ [][ConcurrentNext]_vars

(***************************************************************************)
(* Reading the buffer                                                      *)
(***************************************************************************)
\* a buffer line that moves Z: not an annotation, not blank, not a comment
IsZEntry(e) ==
  /\ e.kind \in {"input", "macro", "pen_up"}
  /\ ~IsBlankOrComment(Strip(e.line))
  /\ e.line.z # <<>>

Max(S) == CHOOSE x \in S : \A y \in S : y <= x
Min(S) == CHOOSE x \in S : \A y \in S : x <= y

\* positions of the Z-moving lines of buf before position i
ZBefore(buf, i) == {j \in 1..(i - 1) : IsZEntry(buf[j])}

\* a block of the merged output opens with a job's start annotation or with
\* the paper-change header
Opens(e) == e.kind \in {"job_start", "paper_header"}
BlockName(e) == IF e.kind = "paper_header" THEN "paper" ELSE e.who
Openers(buf) == {i \in 1..Len(buf) : Opens(buf[i])}
BlockRank(name) ==
  CASE name = "writing" -> 1 [] name = "paper" -> 2 [] name = "drawing" -> 3 [] OTHER -> 0

\* the block position i lies in: the one opened last at or before i
BlockAt(buf, i) == BlockName(buf[Max({j \in Openers(buf) : j <= i})])

\* positions of job's start and end annotations
JobStart(buf, name) == {i \in 1..Len(buf) : buf[i].kind = "job_start" /\ buf[i].who = name}
JobEnd(buf, name) == {i \in 1..Len(buf) : buf[i].kind = "job_end" /\ buf[i].who = name}

(***************************************************************************)
(* C1: no macro expansion (ink by marker, ink by stroke count, paper       *)
(* change) begins while the tool is engaged: the last Z-moving line        *)
(* emitted before the expansion's start annotation, if any, has            *)
(* Z < pen_down_z - eps.  The code breaks this: a marker line, or the end  *)
(* of the writing job, may come while the pen is down.                     *)
(***************************************************************************)
C1_MacroBeginsDisengaged ==
  \A i \in 1..Len(buffer) :
    (buffer[i].kind = "macro_start" /\ ZBefore(buffer, i) # {})
      => ~Engaged(buffer[Max(ZBefore(buffer, i))].line.z[1], params)

(***************************************************************************)
(* C2: ordering of the merged output.  The blocks open in the order        *)
(* writing, paper change, drawing, each at most once; the buffer starts    *)
(* with the writing block; a block opens only after the one before it is   *)
(* closed (end annotation and trailing blank line for a job); every line   *)
(* annotated with a job's name or as paper change lies in that block; and  *)
(* a finished run holds the writing block, the paper block if there is a   *)
(* paper macro, and the drawing block.                                     *)
(***************************************************************************)
C2_BlocksInOrder ==
  /\ \A i, j \in Openers(buffer) :
       i < j => BlockRank(BlockName(buffer[i])) < BlockRank(BlockName(buffer[j]))
  /\ buffer # <<>> => buffer[1] = Annotation("job_start", Note("writing", "", 0))
  /\ \A j \in Openers(buffer) :
       j > 1 => /\ buffer[j - 1].kind = "tail"
                /\ BlockAt(buffer, j - 1) \in {"writing", "drawing"}
                     => buffer[j - 2] = Annotation("job_end",
                                          Note(BlockAt(buffer, j - 1), "", 0))
  /\ \A i \in 1..Len(buffer) :
       buffer[i].who # "" => buffer[i].who = BlockAt(buffer, i)
  /\ \A name \in {"writing", "drawing"} :
       \A e \in JobEnd(buffer, name) :
         \A i \in 1..Len(buffer) : BlockAt(buffer, i) = name => i <= e + 1
  /\ pc = "done" =>
       {BlockName(buffer[i]) : i \in Openers(buffer)}
         = {"writing", "drawing"} \cup
           (IF params.paper_macro = <<>> THEN {} ELSE {"paper"})

\* a finished run whose output holds all three blocks, with ink macros in both jobs
C2_Witness ==
  /\ pc = "done"
  /\ Cardinality(Openers(buffer)) = 3
  /\ result.writing_ink_times > 0
  /\ result.drawing_ink_times > 0

(***************************************************************************)
(* C3: stroke mode with threshold N.  T is the number of engaged ->        *)
(* disengaged transitions of the job's input read so far, the job          *)
(* starting disengaged.  At every line boundary of the job the number of   *)
(* insertions is T div N and the stroke counter is T mod N (so the counter *)
(* starts at 0 and is 0 right after each insertion).  The code breaks this *)
(* in the drawing job when the writing job ended with the pen down and the *)
(* paper macro is empty (C8): the first lift is one transition more.       *)
(***************************************************************************)
RECURSIVE Transitions(_, _, _, _, _)
Transitions(ls, i, n, engaged, p) ==
  IF i > n THEN 0
  ELSE LET l == Strip(ls[i])
       IN  IF IsBlankOrComment(l) \/ l.z = <<>>
           THEN Transitions(ls, i + 1, n, engaged, p)
           ELSE LET e == l.z[1] >= p.pen_down_z - FLOAT_EPS
                IN  (IF engaged /\ ~e THEN 1 ELSE 0) + Transitions(ls, i + 1, n, e, p)

AtLineBoundary == InJob /\ idx >= 1

C3_StrokeCountArithmetic ==
  (AtLineBoundary /\ CurrentJob.ink_mode = "stroke") =>
    LET N == CurrentJob.stroke_interval
        T == Transitions(lines, 1, idx - 1, FALSE, params)
    IN  /\ ink_counter = T \div N
        /\ stroke_counter = T % N

(***************************************************************************)
(* C4: marker mode.  At every line boundary of a marker-mode job, the      *)
(* number of insertions equals the number of lines read so far whose       *)
(* trimmed text equals the trimmed token, and the job's output, reduced to *)
(* its input lines, manual-ink notes and macro start annotations, is the   *)
(* input read so far with each such line replaced, in place, by its note   *)
(* #k (and the start of the expansion when the ink macro is not empty);    *)
(* every other line, also one that contains the token, is there verbatim.  *)
(***************************************************************************)
IsExactMarker(line, p) == Strip(line).text = StripToken(p.marker_token)

ContainsToken(line) == line.text \in {";#AUTO_INK# now", "G1 X1 ;#AUTO_INK#"}

RECURSIVE MarkerView(_, _, _, _, _, _)
MarkerView(ls, i, n, k, job, p) ==
  IF i > n THEN <<>>
  ELSE IF IsExactMarker(ls[i], p)
       THEN <<Annotation("manual_note", Note(job.name, "manual", k + 1))>>
            \o (IF p.ink_macro # <<>>
                THEN <<Annotation("macro_start", Note(job.name, "manual", k + 1))>>
                ELSE <<>>)
            \o MarkerView(ls, i + 1, n, k + 1, job, p)
       ELSE <<InputEntry(ls[i])>> \o MarkerView(ls, i + 1, n, k, job, p)

InMarkerView(e) == e.kind \in {"input", "manual_note", "macro_start"}

\* the output of the job being processed, after its start annotation
CurrentBlock ==
  SubSeq(buffer, Max(JobStart(buffer, CurrentJob.name)) + 1, Len(buffer))

C4_MarkerTriggersOnWholeLine ==
  (AtLineBoundary /\ CurrentJob.ink_mode = "marker") =>
    /\ ink_counter = Cardinality({i \in 1..(idx - 1) : IsExactMarker(lines[i], params)})
    /\ SelectSeq(CurrentBlock, InMarkerView)
         = MarkerView(lines, 1, idx - 1, 0, CurrentJob, params)

\* a marker-mode job has read a marker line (one of them padded with spaces in
\* some run) and a line that only contains the token, with an ink macro to expand
C4_Witness ==
  /\ AtLineBoundary /\ CurrentJob.ink_mode = "marker"
  /\ params.ink_macro # <<>>
  /\ \E i, j \in 1..(idx - 1) :
       /\ IsExactMarker(lines[i], params)
       /\ ContainsToken(lines[j])
       /\ i < j

(***************************************************************************)
(* C5: normalization after macros.  When the pipeline resumes after a      *)
(* macro expansion (the buffer ends with the expansion: its end annotation *)
(* or the pen-up correction, followed by the blank line for the paper      *)
(* change), the tracked position is within tolerance of pen_up_z and the   *)
(* engagement flag is false.  The code breaks this after a stroke-         *)
(* triggered expansion: it then stores the lift line's Z.                  *)
(***************************************************************************)
EndsExpansion(e) == e.kind \in {"macro_end", "pen_up"}

JustExpanded ==
  /\ pc # "failed"
  /\ buffer # <<>>
  /\ \/ EndsExpansion(buffer[Len(buffer)])
     \/ /\ Len(buffer) > 1
        /\ buffer[Len(buffer)].kind = "tail"
        /\ EndsExpansion(buffer[Len(buffer) - 1])

C5_NormalizedAfterMacro ==
  JustExpanded =>
    /\ Abs(state.current_z - params.pen_up_z) <= FLOAT_EPS
    /\ ~state.pen_down

(***************************************************************************)
(* C6: a run that fails leaves the output file as it was, and the file is  *)
(* written in one step only, finalize, after both inputs have been read    *)
(* and both job blocks and the paper change are in the buffer.             *)
(***************************************************************************)
C6_NoOutputOnFailure ==
  [][ /\ pc' = "failed" => output' = output
      /\ output' # output =>
           /\ pc = "finalize" /\ pc' = "done"
           /\ reads = {"writing", "drawing"}
           /\ JobEnd(buffer, "writing") # {} /\ JobEnd(buffer, "drawing") # {}
           /\ output' = [exists |-> TRUE, content |-> buffer] ]_vars

\* a run failed while reading the drawing input, after the writing job and the
\* paper change had filled the buffer, and the old output file is still there
C6_Witness ==
  /\ pc = "failed"
  /\ failed_in = "run_drawing"
  /\ JobEnd(buffer, "writing") # {}
  /\ output = OldOutput

(***************************************************************************)
(* C7: with pen_down_z <= pen_up_z the run never leaves validate except by *)
(* failing there with ValueError; no input has been read, the output       *)
(* directory has not been created and no output file has been created.     *)
(***************************************************************************)
C7_HeightsRejected ==
  params.pen_down_z <= params.pen_up_z =>
    /\ pc \in {"validate", "failed"}
    /\ pc = "failed" => (failed_in = "validate" /\ error = "ValueError")
    /\ reads = {}
    /\ ~dir_created
    /\ output \in {NoOutput, OldOutput}
    /\ buffer = <<>>

\* validate has failed on equal heights, with both inputs present and valid
C7_Witness ==
  /\ params.pen_down_z = params.pen_up_z
  /\ pc = "failed"
  /\ files.writing.lines # <<>> /\ files.drawing.lines # <<>>
  /\ files.dir_ok

(***************************************************************************)
(* C8: at the start of each job the Machine State is disengaged and at the *)
(* tool-up height (the formula grants the tolerance), whatever the         *)
(* previous job ended with and also with an empty paper macro.  The code   *)
(* breaks this: the drawing job starts with the state the writing job      *)
(* left when the paper macro is empty.                                     *)
(***************************************************************************)
AtJobStart == InJob /\ idx = 0

C8_JobStartsDisengaged ==
  AtJobStart =>
    /\ ~state.pen_down
    /\ Abs(state.current_z - params.pen_up_z) <= FLOAT_EPS

(***************************************************************************)
(* C9: job independence.  When the drawing job is finished, its output     *)
(* block and its ink count are those of any run with the same              *)
(* configuration and drawing input and another writing input.  The code    *)
(* breaks this with an empty paper macro (C8).                             *)
(***************************************************************************)
OtherWritingInputs == {<<LMove>>, <<LMove, LDown>>, <<LDown, LMid>>}

DrawingBlock == SubSeq(buffer, Min(JobStart(buffer, "drawing")), Len(buffer))

C9_DrawingIndependentOfWriting ==
  pc \in {"finalize", "done"} =>
    \A other \in OtherWritingInputs :
      LET run == PostProcess(params, other, files.drawing.lines)
      IN  run.ok => /\ run.drawing_block = DrawingBlock
                    /\ run.drawing_ink_times = result.drawing_ink_times

(***************************************************************************)
(* C10: round trip.  As claimed: a finished job's output without the       *)
(* macro expansions and annotations is the job's raw input.  As amended:   *)
(* without the expansions, the annotations and the synthetic velocity line *)
(* it is the raw input, in order, without the lines that matched the       *)
(* marker token in a marker-mode job.                                      *)
(***************************************************************************)
IsInputEntry(e) == e.kind = "input"

\* the lines of a finished job's block that are neither annotation nor expansion
StrippedOutput(name) ==
  LET block == SubSeq(buffer, Min(JobStart(buffer, name)), Min(JobEnd(buffer, name)))
      kept == SelectSeq(block, IsInputEntry)
  IN  [i \in 1..Len(kept) |-> kept[i].line]

Finished(name) == pc # "failed" /\ JobEnd(buffer, name) # {}

C10_RoundTripAsClaimed ==
  \A name \in {"writing", "drawing"} :
    Finished(name) => StrippedOutput(name) = files[name].lines

C10_RoundTrip ==
  \A name \in {"writing", "drawing"} :
    Finished(name) =>
      LET NotSynthetic(l) == l # FeedLine
          NotReplaced(l) == ~(params[name].ink_mode = "marker" /\ IsExactMarker(l, params))
      IN  SelectSeq(StrippedOutput(name), NotSynthetic)
            = SelectSeq(files[name].lines, NotReplaced)

\* a finished marker-mode job whose input had a marker line between other lines,
\* one of them blank, and got the synthetic velocity line
C10_Witness ==
  \E name \in {"writing", "drawing"} :
    /\ Finished(name)
    /\ params[name].ink_mode = "marker"
    /\ \E i, j, k \in 1..Len(files[name].lines) :
         /\ i < j /\ j < k
         /\ IsExactMarker(files[name].lines[j], params)
         /\ files[name].lines[i] = LEmpty
         /\ ~IsExactMarker(files[name].lines[k], params)
    /\ \E i \in 1..Len(StrippedOutput(name)) : StrippedOutput(name)[i] = FeedLine

(***************************************************************************)
(* C11: Feed-Rate Ensurer.  When a job has read its input, the lines it    *)
(* iterates are the raw lines with one synthetic velocity line right after *)
(* the first candidate if there is a candidate and none of the (at most    *)
(* two) candidates carries an F value, and the raw lines themselves in     *)
(* every other case; the raw lines keep their order.                       *)
(***************************************************************************)
\* the first two positions of ls whose line is neither blank nor a comment
RECURSIVE FirstCandidates(_, _, _)
FirstCandidates(ls, i, found) ==
  IF i > Len(ls) \/ Cardinality(found) = 2 THEN found
  ELSE FirstCandidates(ls, i + 1,
         IF IsBlankOrComment(Strip(ls[i])) THEN found ELSE found \cup {i})

VelocityMissing(raw) ==
  LET K == FirstCandidates(raw, 1, {})
  IN  K # {} /\ \A i \in K : ~raw[i].f

C11_FeedrateEnsured ==
  AtLineBoundary =>
    LET raw == CurrentFile.lines
        K   == FirstCandidates(raw, 1, {})
    IN  IF VelocityMissing(raw)
        THEN LET c == Min(K)
             IN  /\ Len(lines) = Len(raw) + 1
                 /\ lines[c + 1] = FeedLine
                 /\ \A i \in 1..Len(raw) : lines[IF i <= c THEN i ELSE i + 1] = raw[i]
        ELSE lines = raw

\* a job iterates an input that starts with a blank line and got the synthetic
\* line after its first candidate, the second position
C11_Witness ==
  /\ AtLineBoundary
  /\ Len(CurrentFile.lines) = 3
  /\ CurrentFile.lines[1] = LEmpty
  /\ ~IsBlankOrComment(CurrentFile.lines[2])
  /\ Len(lines) = 4
  /\ lines[3] = FeedLine

(***************************************************************************)
(* C12: no unspecified-velocity motion.  In every job block of the buffer, *)
(* every input line that is neither blank nor a comment and carries no F   *)
(* value comes after a line of the block that carries one.  (Only the      *)
(* job's own lines are looked at, not the macro lines.)  The code breaks   *)
(* this: the synthetic line is put after the first candidate, and an F     *)
(* value on the second candidate is taken as enough.                       *)
(***************************************************************************)
IsCommand(e) == e.kind = "input" /\ ~IsBlankOrComment(Strip(e.line))

C12_VelocityBeforeMotion ==
  \A i \in 1..Len(buffer) :
    (IsCommand(buffer[i]) /\ ~buffer[i].line.f) =>
      \E j \in 1..(i - 1) :
        /\ IsCommand(buffer[j]) /\ buffer[j].line.f
        /\ BlockAt(buffer, j) = BlockAt(buffer, i)

(***************************************************************************)
(* C13: paper insertions of a run that succeeds.  As claimed: paper_times  *)
(* is 1 and the output holds exactly one paper-change block.  As amended:  *)
(* paper_times is 1 when the paper macro has lines and 0 when it is empty, *)
(* and the output holds exactly paper_times paper-change blocks.           *)
(***************************************************************************)
PaperHeaders(buf) == {i \in 1..Len(buf) : buf[i].kind = "paper_header"}

PaperStarts(buf) ==
  {i \in 1..Len(buf) : buf[i].kind = "macro_start" /\ buf[i].who = "paper"}

C13_PaperOnceAsClaimed ==
  pc = "done" =>
    /\ result.paper_times = 1
    /\ Cardinality(PaperHeaders(output.content)) = 1

C13_PaperTimes ==
  pc = "done" =>
    /\ result.paper_times = IF params.paper_macro = <<>> THEN 0 ELSE 1
    /\ Cardinality(PaperHeaders(output.content)) = result.paper_times
    /\ Cardinality(PaperStarts(output.content)) = result.paper_times

\* a run has succeeded with a paper macro of two lines
C13_Witness ==
  /\ pc = "done"
  /\ Len(params.paper_macro) = 2
  /\ result.paper_times = 1
  /\ PaperHeaders(output.content) # {}

(***************************************************************************)
(* C14: an empty paper macro is accepted.  With an empty paper macro the   *)
(* run never fails in insert-paper, reports zero paper insertions, emits   *)
(* no paper-change line (header, macro annotation or macro line of the     *)
(* paper change), and the drawing block opens right after the end          *)
(* annotation and blank line of the writing block.                         *)
(***************************************************************************)
C14_EmptyPaperMacroAccepted ==
  params.paper_macro = <<>> =>
    /\ failed_in # "insert_paper"
    /\ result.paper_times = 0
    /\ \A i \in 1..Len(buffer) :
         /\ buffer[i].kind # "paper_header"
         /\ buffer[i].who # "paper"
         /\ BlockAt(buffer, i) # "paper"
    /\ \A s \in JobStart(buffer, "drawing") :
         /\ s > 2
         /\ buffer[s - 1].kind = "tail"
         /\ buffer[s - 2] = Annotation("job_end", Note("writing", "", 0))
    /\ pc = "run_drawing" => JobEnd(buffer, "writing") # {}

\* a run with an empty paper macro has succeeded
C14_Witness ==
  /\ params.paper_macro = <<>>
  /\ pc = "done"
  /\ JobStart(output.content, "drawing") # {}

(***************************************************************************)
(* C15: an input that exists but holds no line, or blank lines only, makes *)
(* the run fail in validate, and no output is written.  The code breaks    *)
(* this: validate only checks that the file exists; a file without lines   *)
(* fails when its job reads it, and a file of blank lines is processed.    *)
(***************************************************************************)
EmptyAfterStripping(file) ==
  file.exists /\ \A i \in 1..Len(file.lines) : Strip(file.lines[i]).text = ""

C15_EmptyInputFailsInValidate ==
  (EmptyAfterStripping(files.writing) \/ EmptyAfterStripping(files.drawing)) =>
    /\ pc \in {"validate", "failed"}
    /\ pc = "failed" => failed_in = "validate"
    /\ output \in {NoOutput, OldOutput}

(***************************************************************************)
(* C16: per-job configuration errors.  When a job's mode is not in         *)
(* {off, marker, stroke}, or is stroke with a threshold that is absent,    *)
(* zero or negative, or is marker with a token that is empty after         *)
(* trimming, the run never leaves validate except by failing there, with   *)
(* no input read, no directory created and nothing written.  When no job   *)
(* has such an error (an empty token with off or stroke mode and any       *)
(* threshold with off or marker mode are none), the heights are in order,  *)
(* both files exist and the directory can be created, validate does not    *)
(* fail.                                                                   *)
(***************************************************************************)
JobConfigError(job, p) ==
  \/ job.ink_mode \notin {"off", "marker", "stroke"}
  \/ job.ink_mode = "stroke" /\ job.stroke_interval <= 0
  \/ job.ink_mode = "marker" /\ p.marker_token \in {"", " "}

C16_JobErrorsRaisedInValidate ==
  /\ (JobConfigError(params.writing, params) \/ JobConfigError(params.drawing, params)) =>
       /\ pc \in {"validate", "failed"}
       /\ pc = "failed" => failed_in = "validate"
       /\ (pc = "failed" /\ params.pen_down_z > params.pen_up_z
             /\ files.writing.exists /\ files.drawing.exists) => error = "ValueError"
       /\ reads = {}
       /\ ~dir_created
       /\ output \in {NoOutput, OldOutput}
       /\ buffer = <<>>
  /\ (/\ ~JobConfigError(params.writing, params)
      /\ ~JobConfigError(params.drawing, params)
      /\ params.pen_down_z > params.pen_up_z
      /\ files.writing.exists /\ files.drawing.exists /\ files.dir_ok) =>
       failed_in # "validate"

\* validate has failed on the drawing job, in marker mode with a token of spaces,
\* the writing job and the heights being in order
C16_Witness ==
  /\ pc = "failed"
  /\ failed_in = "validate"
  /\ params.pen_down_z > params.pen_up_z
  /\ ~JobConfigError(params.writing, params)
  /\ params.drawing.ink_mode = "marker"
  /\ params.marker_token = " "

(***************************************************************************)
(* C17: marker mode.  A line equal to the marker token is not emitted; its *)
(* note is followed by the expansion: start annotation, the N rendered     *)
(* lines of the ink macro in template order, end annotation, and at most   *)
(* one pen-up correction line (nothing follows the note when N = 0).  As   *)
(* claimed, the correction line lies before the end annotation; as         *)
(* amended, it follows the end annotation.                                 *)
(***************************************************************************)
ManualStarts ==
  {s \in 1..Len(buffer) : buffer[s].kind = "macro_start" /\ buffer[s].how = "manual"}

ManualNotes == {i \in 1..Len(buffer) : buffer[i].kind = "manual_note"}

NoteOf(e) == Note(e.who, e.how, e.n)

IsKind(i, kinds) == i <= Len(buffer) /\ buffer[i].kind \in kinds

\* what C17 says whichever side of the end annotation the correction is on
MarkerExpansionShape ==
  /\ \A i \in 1..Len(buffer) :
       (buffer[i].kind = "input" /\ params[BlockAt(buffer, i)].ink_mode = "marker")
         => ~IsExactMarker(buffer[i].line, params)
  /\ \A i \in ManualNotes :
       IF params.ink_macro = <<>>
       THEN ~IsKind(i + 1, {"macro_start", "macro", "macro_end", "pen_up"})
       ELSE i + 1 \in ManualStarts /\ NoteOf(buffer[i + 1]) = NoteOf(buffer[i])
  /\ \A s \in ManualStarts :
       /\ s - 1 \in ManualNotes
       /\ \A k \in 1..Len(params.ink_macro) :
            /\ IsKind(s + k, {"macro"})
            /\ buffer[s + k].line
                 = FormatMacroLine(params.ink_macro[k], MacroContext(params))

C17_ExpansionAsClaimed ==
  /\ MarkerExpansionShape
  /\ \A s \in ManualStarts :
       LET N == Len(params.ink_macro)
       IN  \/ IsKind(s + N + 1, {"macro_end"}) /\ ~IsKind(s + N + 2, {"pen_up"})
           \/ /\ IsKind(s + N + 1, {"pen_up"})
              /\ IsKind(s + N + 2, {"macro_end"})
              /\ ~IsKind(s + N + 3, {"pen_up"})

C17_MarkerReplacedByExpansion ==
  /\ MarkerExpansionShape
  /\ \A s \in ManualStarts :
       LET e == s + Len(params.ink_macro) + 1
       IN  /\ IsKind(e, {"macro_end"})
           /\ NoteOf(buffer[e]) = NoteOf(buffer[s])
           /\ ~(IsKind(e + 1, {"pen_up"}) /\ IsKind(e + 2, {"pen_up"}))

\* a marker line read while the pen was down has been replaced by the expansion
\* of an ink macro of two lines, the correction line included
C17_Witness ==
  \E s \in ManualStarts :
    /\ Len(params.ink_macro) = 2
    /\ IsKind(s + 3, {"macro_end"})
    /\ IsKind(s + 4, {"pen_up"})

(***************************************************************************)
(* C19: whenever _inject_macro has returned, whatever macro (also an empty *)
(* one) and Machine State it was given, the engagement flag it left is     *)
(* false.  The code breaks this: with an empty macro it returns at once    *)
(* and leaves the Machine State as it was.                                 *)
(***************************************************************************)
C19_DisengagedOnExit ==
  injected.called => ~injected.exit.pen_down

(***************************************************************************)
(* C20: whenever _inject_macro has returned from a macro of N > 0 lines,   *)
(* it appended the start annotation, N lines, the end annotation, and then *)
(* one pen-up line if the position after the last template line (the Z of  *)
(* the last rendered line that carries one, else the position on entry)    *)
(* differs from pen_up_z by more than the tolerance, and no pen-up line    *)
(* otherwise; the position it left is within the tolerance of pen_up_z.    *)
(***************************************************************************)
\* the Z of the last rendered line of macro_lines[1..i] that carries one, else z
RECURSIVE PositionAfter(_, _, _, _)
PositionAfter(macro_lines, i, p, z) ==
  IF i = 0 THEN z
  ELSE LET line == FormatMacroLine(macro_lines[i], MacroContext(p))
       IN  IF line.z # <<>> THEN line.z[1]
           ELSE PositionAfter(macro_lines, i - 1, p, z)

IsPenUpEntry(e) == e.kind = "pen_up"

C20_PenUpCorrection ==
  (injected.called /\ injected.macro # <<>>) =>
    LET N   == Len(injected.macro)
        pos == PositionAfter(injected.macro, N, params, injected.entry.current_z)
        off == pos - params.pen_up_z > FLOAT_EPS \/ params.pen_up_z - pos > FLOAT_EPS
        out == injected.emitted
    IN  /\ Len(SelectSeq(out, IsPenUpEntry)) = IF off THEN 1 ELSE 0
        /\ Len(out) = N + 2 + (IF off THEN 1 ELSE 0)
        /\ out[1].kind = "macro_start"
        /\ out[N + 2].kind = "macro_end"
        /\ off => /\ out[N + 3].kind = "pen_up"
                  /\ out[N + 3].line.z = <<params.pen_up_z>>
        /\ injected.exit.current_z - params.pen_up_z <= FLOAT_EPS
        /\ params.pen_up_z - injected.exit.current_z <= FLOAT_EPS

\* _inject_macro has returned from a macro none of whose lines carries a Z value,
\* entered with the pen at the pen-down height: the correction line was appended
C20_Witness ==
  /\ injected.called
  /\ injected.macro = <<TMove, TUnknown>>
  /\ injected.entry.current_z = params.pen_down_z
  /\ injected.emitted[Len(injected.emitted)].kind = "pen_up"

\* _inject_macro has returned from a macro that ends within the tolerance of the
\* pen-up height, without being at it: no correction line was appended
C20_WitnessNear ==
  /\ injected.called
  /\ injected.macro = <<TDown, TNear>>
  /\ injected.exit.current_z = params.pen_up_z + FLOAT_EPS

(***************************************************************************)
(* C18: two calls of post_process over disjoint inputs and outputs, under  *)
(* every interleaving of their steps: when a call has ended, its output    *)
(* file and PostResult (or the exception it failed with, and where) are    *)
(* those of the same call executed alone.                                  *)
(***************************************************************************)
Ended(r) == r.pc \in {"done", "failed"}

\* the original output file of a call: no call writes before it is done
AsAlone(r, out) ==
  LET alone == PostProcessAlone(r.params, r.files, out)
  IN  /\ r.pc = alone.pc
      /\ r.failed_in = alone.failed_in
      /\ r.error = alone.error
      /\ r.output = alone.output
      /\ r.pc = "done" =>
           /\ r.result.writing_ink_times = alone.writing_ink_times
           /\ r.result.drawing_ink_times = alone.drawing_ink_times
           /\ r.result.paper_times = alone.paper_times
           /\ r.result.total_lines = alone.total_lines

C18_ConcurrentRunsIndependent ==
  \A r \in {Suspended} \cup (IF peer.present THEN {peer} ELSE {}) :
    Ended(r) => \E out \in {NoOutput, OldOutput} : AsAlone(r, out)

\* both calls have run to the end and succeeded, with different outputs, one with
\* ink insertions in its writing job and the other in its drawing job
C18_Witness ==
  /\ peer.present
  /\ pc = "done" /\ peer.pc = "done"
  /\ output # peer.output
  /\ result.writing_ink_times > 0
  /\ peer.result.drawing_ink_times > 0

(***************************************************************************)
(* C22: once validate has passed, in every state of the run the engagement *)
(* flag equals (tracked position >= pen_down_z - eps).  The code breaks    *)
(* this when pen_down_z is within two tolerances of pen_up_z: the state is *)
(* created, and left by a macro, disengaged at a height that the           *)
(* comparison calls engaged.                                               *)
(***************************************************************************)
Validated == pc # "validate" /\ failed_in # "validate"

C22_FlagIsDerived ==
  Validated => state.pen_down = (state.current_z >= params.pen_down_z - FLOAT_EPS)

(***************************************************************************)
(* C26: tracking fidelity.  At every line boundary and phase boundary of a *)
(* validated run the tracked position is the Z of the last line of the     *)
(* buffer that carries one and is not a comment, or pen_up_z if there is   *)
(* none.  The code breaks this right after a stroke-triggered expansion:   *)
(* it stores the lift line's Z, which the expansion's lines follow (C5).   *)
(***************************************************************************)
LastEmittedZ ==
  LET Z == ZBefore(buffer, Len(buffer) + 1)
  IN  IF Z = {} THEN params.pen_up_z ELSE buffer[Max(Z)].line.z[1]

C26_TrackedIsLastEmitted ==
  (Validated /\ pc # "failed") => state.current_z = LastEmittedZ

(***************************************************************************)
(* C27: for each job of a run that succeeded, the ink count of the         *)
(* PostResult is the number of ink-macro expansions (start annotations of  *)
(* the job's ink macro) in the job's block of the output.  The code breaks *)
(* this with an empty ink macro: each trigger is counted, nothing is       *)
(* expanded.                                                               *)
(***************************************************************************)
InkStarts(buf, name) ==
  {i \in 1..Len(buf) : /\ buf[i].kind = "macro_start"
                       /\ buf[i].who = name
                       /\ BlockAt(buf, i) = name}

C27_InkCountsMatchOutput ==
  pc = "done" =>
    /\ result.writing_ink_times = Cardinality(InkStarts(output.content, "writing"))
    /\ result.drawing_ink_times = Cardinality(InkStarts(output.content, "drawing"))

(***************************************************************************)
(* C29: in a stroke-mode job with threshold N, at every line boundary the  *)
(* stroke counter c satisfies 0 <= c < N.                                  *)
(***************************************************************************)
C29_CounterBelowThreshold ==
  (AtLineBoundary /\ CurrentJob.ink_mode = "stroke") =>
    /\ 0 <= stroke_counter
    /\ stroke_counter < CurrentJob.stroke_interval

\* a job with threshold 2 has made an insertion and counted one more stroke
C29_Witness ==
  /\ AtLineBoundary /\ CurrentJob.ink_mode = "stroke"
  /\ CurrentJob.stroke_interval = 2
  /\ ink_counter = 1
  /\ stroke_counter = 1

(***************************************************************************)
(* Steps of the loop of _process_job, as the claims about one line read    *)
(* them: the loop is about to process lines[idx]                           *)
(***************************************************************************)
AtLine == InJob /\ idx \in 1..Len(lines)

ThisLine == lines[idx]

\* the line is a command with a Z value that lifts the pen: the previous state
\* is engaged and the Z value is below the engagement height
LiftsPen(line) ==
  /\ Strip(line).text # ""
  /\ ~Strip(line).comment
  /\ line.z # <<>>
  /\ previous_pen_down
  /\ ~(line.z[1] >= params.pen_down_z - FLOAT_EPS)

IsExpansionEntry(e) == e.kind \in {"macro_start", "macro", "macro_end", "pen_up"}

(***************************************************************************)
(* C21: stroke mode.  In every step of a stroke-mode job that processes a  *)
(* pen-lift line, the lift line is appended first; when the lift brings    *)
(* the counter to the threshold the expansion of the ink macro, annotated  *)
(* with the next sequence number, follows it at once and nothing else is   *)
(* appended; when it does not, nothing but the lift line is appended.  No  *)
(* stroke-triggered expansion in the buffer starts anywhere but right      *)
(* after a line that moves Z below the engagement height.                  *)
(***************************************************************************)
C21_InsertionFollowsLift ==
  [][ (AtLine /\ CurrentJob.ink_mode = "stroke" /\ LiftsPen(ThisLine) /\ pc' # "failed") =>
        LET at == Len(buffer) + 1
            reached == stroke_counter + 1 = CurrentJob.stroke_interval
        IN  /\ Len(buffer') >= at
            /\ SubSeq(buffer', 1, at) = Append(buffer, Entry("input", "", "", 0, ThisLine))
            /\ \A i \in (at + 1)..Len(buffer') : IsExpansionEntry(buffer'[i])
            /\ ink_counter' = ink_counter + (IF reached THEN 1 ELSE 0)
            /\ (reached /\ params.ink_macro # <<>>) =>
                 /\ Len(buffer') >= at + Len(params.ink_macro) + 2
                 /\ buffer'[at + 1] = Annotation("macro_start",
                                        Note(CurrentJob.name, "auto", ink_counter + 1))
            /\ ~reached => Len(buffer') = at
            /\ \A s \in 1..Len(buffer') :
                 (buffer'[s].kind = "macro_start" /\ buffer'[s].how = "auto") =>
                   /\ s > 1
                   /\ buffer'[s - 1].kind = "input"
                   /\ buffer'[s - 1].line.z # <<>>
                   /\ ~(buffer'[s - 1].line.z[1] >= params.pen_down_z - FLOAT_EPS)
    ]_vars

\* a job with threshold 2 has just expanded the ink macro after its second lift
C21_Witness ==
  /\ AtLineBoundary
  /\ CurrentJob.ink_mode = "stroke" /\ CurrentJob.stroke_interval = 2
  /\ buffer[Len(buffer)].kind \in {"macro_end", "pen_up"}
  /\ ink_counter = 1
  /\ stroke_counter = 0

(***************************************************************************)
(* C23: a step that processes a blank line, a comment line (also one with  *)
(* a Z token in its text) or a line without Z value, the line not being a  *)
(* matched marker line of a marker-mode job, appends the line verbatim and *)
(* changes neither the tracked position, the engagement flag, the stroke   *)
(* counter nor the ink count; it does not fail.                            *)
(***************************************************************************)
CarriesNoZ(line) == Strip(line).text = "" \/ Strip(line).comment \/ line.z = <<>>

MatchedMarker(line) ==
  CurrentJob.ink_mode = "marker" /\ IsExactMarker(line, params)

C23_QuietLinePassesThrough ==
  [][ (AtLine /\ CarriesNoZ(ThisLine) /\ ~MatchedMarker(ThisLine)) =>
        /\ buffer' = Append(buffer, Entry("input", "", "", 0, ThisLine))
        /\ state' = state
        /\ stroke_counter' = stroke_counter
        /\ ink_counter' = ink_counter
        /\ previous_pen_down' = previous_pen_down
        /\ pc' = pc
    ]_vars

\* a comment line with a Z token in it has been passed through while the tracked
\* position was at another height
C23_Witness ==
  /\ AtLineBoundary /\ idx > 1
  /\ lines[idx - 1] = LNoteZ
  /\ buffer[Len(buffer)] = InputEntry(LNoteZ)
  /\ state.current_z # LNoteZ.z[1]

(***************************************************************************)
(* C24: off mode.  The ink count of an off-mode job is 0 throughout, and   *)
(* when the job is finished its block is the start annotation, the         *)
(* feed-rate-ensured input lines verbatim and in order, and the end        *)
(* annotation.                                                             *)
(***************************************************************************)
InkTimes(name) ==
  IF name = "writing" THEN result.writing_ink_times ELSE result.drawing_ink_times

C24_OffModePassesThrough ==
  /\ (InJob /\ CurrentJob.ink_mode = "off") => ink_counter = 0
  /\ \A name \in {"writing", "drawing"} :
       (Finished(name) /\ params[name].ink_mode = "off") =>
         LET s == Min(JobStart(buffer, name))
             e == Min(JobEnd(buffer, name))
             ensured == EnsureFeedrate(files[name].lines)
         IN  /\ InkTimes(name) = 0
             /\ e = s + Len(ensured) + 1
             /\ \A i \in 1..Len(ensured) :
                  buffer[s + i] = Entry("input", "", "", 0, ensured[i])

\* an off-mode writing job is finished whose input has a pen lift followed by a
\* marker line
C24_Witness ==
  /\ Finished("writing")
  /\ params.writing.ink_mode = "off"
  /\ files.writing.lines = <<LDown, LMid, LMarker>>

(***************************************************************************)
(* C25: marker and stroke triggering exclude each other.  In a marker-mode *)
(* job a step that processes a line other than a marker line (a pen lift   *)
(* too, whatever the threshold) leaves the ink count as it is and appends  *)
(* the line only; in a stroke-mode job a step that processes a line equal  *)
(* to the marker token leaves the ink count, the stroke counter and the    *)
(* Machine State as they are and appends the line only.                    *)
(***************************************************************************)
C25_TriggersExclusive ==
  [][ /\ (AtLine /\ CurrentJob.ink_mode = "marker" /\ ~IsExactMarker(ThisLine, params)) =>
           /\ ink_counter' = ink_counter
           /\ buffer' = Append(buffer, Entry("input", "", "", 0, ThisLine))
           /\ pc' = pc
      /\ (AtLine /\ CurrentJob.ink_mode = "stroke" /\ IsExactMarker(ThisLine, params)) =>
           /\ ink_counter' = ink_counter
           /\ stroke_counter' = stroke_counter
           /\ state' = state
           /\ buffer' = Append(buffer, Entry("input", "", "", 0, ThisLine))
           /\ pc' = pc
    ]_vars

\* a stroke-mode job with threshold 2 has passed a marker line through after
\* its first stroke
C25_Witness ==
  /\ AtLineBoundary /\ idx > 1
  /\ CurrentJob.ink_mode = "stroke" /\ CurrentJob.stroke_interval = 2
  /\ lines[idx - 1] = LMarker
  /\ buffer[Len(buffer)] = InputEntry(LMarker)
  /\ stroke_counter = 1

\* a marker-mode job with a threshold has passed a pen lift without insertion
C25_WitnessLift ==
  /\ AtLineBoundary /\ idx > 1
  /\ CurrentJob.ink_mode = "marker" /\ CurrentJob.stroke_interval = 1
  /\ lines[idx - 1] = LUp
  /\ stroke_counter = 1
  /\ ink_counter = 0

(***************************************************************************)
(* C28: Z moves inside an expansion are not strokes.  At the line boundary *)
(* right after an ink expansion the stroke counter is 0, the previous      *)
(* state the next line is compared with is disengaged, and the job's block *)
(* holds as many expansions as the ink count; the drawing job, after the   *)
(* expansion of a paper macro, starts with counter 0 and a disengaged      *)
(* previous state.                                                         *)
(***************************************************************************)
C28_MacroMovesNotCounted ==
  /\ (AtLineBoundary /\ EndsExpansion(buffer[Len(buffer)])) =>
       /\ stroke_counter = 0
       /\ ~previous_pen_down
       /\ Cardinality({i \in 1..Len(CurrentBlock) : CurrentBlock[i].kind = "macro_start"})
            = ink_counter
  /\ (AtLineBoundary /\ pc = "run_drawing" /\ idx = 1 /\ params.paper_macro # <<>>) =>
       /\ stroke_counter = 0
       /\ ~previous_pen_down

\* a stroke-mode job is right after the expansion of an ink macro that lowers and
\* lifts the pen, with an input line still to come
C28_Witness ==
  /\ AtLineBoundary /\ idx <= Len(lines)
  /\ CurrentJob.ink_mode = "stroke"
  /\ params.ink_macro = DefaultInk
  /\ EndsExpansion(buffer[Len(buffer)])

====
